---------------------------- MODULE Spec2Model ----------------------------
(***************************************************************************)
(* rutiles: block-device inventory.                                        *)
(*                                                                         *)
(*   - magic.rs     get_fstype_with_magic: the ordered signature table and *)
(*                  the scan of a raw device node;                         *)
(*   - combined.rs  CombinedDeviceInfo::new: the merge of /sys/block,      *)
(*                  /dev/disk, /proc/mounts and /etc/fstab records.        *)
(*                                                                         *)
(* Conventions.  Option<T>: None is <<>>, Some(x) is <<x>>.  Device and    *)
(* partition names are sequences of bytes, so that String::cmp (byte-wise  *)
(* lexicographic) can be computed; labels, UUIDs, mount points and fstab   *)
(* fields are strings, compared for equality and concatenated only.        *)
(* Result<T, Error>: [ok |-> TRUE, val |-> v] or [ok |-> FALSE, ...].      *)
(***************************************************************************)
EXTENDS Integers, Sequences, FiniteSets, TLC

VARIABLES
    sys_block,      \* SysBlockInfo.info: the device-topology records
    dev_disk,       \* DevDiskInfo.info: the label/UUID records
    proc_mounts,    \* ProcMountsInfo.info: the live-mount records
    fstab,          \* FstabInfo.info: the static-mount records
    devfs,          \* the raw device nodes: path |-> node
    pc,             \* position in CombinedDeviceInfo::new / the caller
    i,              \* index of the outer loop (devices)
    j,              \* index of the inner loop (partitions)
    combined_device,\* the device entity under construction
    combined_info,  \* the Vec<CombinedDeviceInfo> built so far
    probes,         \* names passed to get_fstype_with_magic, in call order
    prev_info,      \* the value returned by the previous call of new
    mdevice,        \* argument of a direct call of get_fstype_with_magic
    mresult,        \* its returned value
    blocks,         \* content of a sysfs `size` file: a count of 512-byte sectors
    size_bytes,     \* what read_size returned for it
    size_text,      \* what readable_size_from returned for that size
    sources,        \* what each of the four readers returns: Ok(records) or Err
    stdout,         \* the lines printed so far
    printed         \* the number of devices main's loop has printed

\* the variables of the direct calls of read_size and readable_size_from
size_vars == <<blocks, size_bytes, size_text>>

vars == <<sys_block, dev_disk, proc_mounts, fstab, devfs, pc, i, j,
          combined_device, combined_info, probes, prev_info, mdevice, mresult,
          size_vars, sources, stdout, printed>>

None == <<>>
Some(x) == <<x>>
Ok(v) == [ok |-> TRUE, val |-> v]
Err == [ok |-> FALSE, val |-> "io::Error"]

(***************************************************************************)
(* Bounds of the model.                                                    *)
(***************************************************************************)
MaxStamps == 3
MaxDevs == 2
MaxParts == 2
MaxMounts == 2
MaxFstab == 2

(***************************************************************************)
(* magic.rs: the signature constants (fs_magic).  Byte strings are         *)
(* sequences of byte values; the numeric magics wider than 16 bits are     *)
(* kept as 16-bit limbs, most significant first, so that no width is lost. *)
(***************************************************************************)
EXT4_MAGIC == \hEF53
BTRFS_MAGIC == <<0, 0, \h9123, \h683E>>
XFS_MAGIC == <<\h5846, \h5342>>
NTFS_MAGIC == <<78, 84, 70, 83, 32>>
FAT12_MAGIC == <<70, 65, 84, 49, 50, 32, 32, 32>>
FAT16_MAGIC == <<70, 65, 84, 49, 54, 32, 32, 32>>
FAT32_MAGIC == <<70, 65, 84, 51, 50, 32, 32, 32>>
EXFAT_MAGIC == <<69, 88, 70, 65, 84, 32, 32, 32>>
SWAP_MAGIC == <<83, 87, 65, 80, 45, 83, 80, 65, 67, 69>>
SWAP_MAGIC_2 == <<83, 87, 65, 80, 83, 80, 65, 67, 69, 50>>
ISO9660_MAGIC == <<67, 68, 48, 48, 49>>

ByteSequence(off, sig, check, t) ==
    [method |-> "ByteSequence", offset |-> off, signature |-> sig,
     secondary_check |-> check, fs_type |-> t]
MagicU16(off, m, t) ==
    [method |-> "MagicU16", offset |-> off, magic |-> m, fs_type |-> t]
MagicU32(off, m, t) ==
    [method |-> "MagicU32", offset |-> off, magic |-> m, fs_type |-> t]
MagicU64(off, m, t) ==
    [method |-> "MagicU64", offset |-> off, magic |-> m, fs_type |-> t]

\* variant: the table with the cheap numeric probes moved to the front
signatures_numeric_first == <<
    MagicU32(0, XFS_MAGIC, "Xfs"),
    MagicU16(1080, EXT4_MAGIC, "Ext4"),
    MagicU64(65600, BTRFS_MAGIC, "Btrfs"),
    ByteSequence(\h36, FAT12_MAGIC, Some("has_boot_sector"), "Vfat"),
    ByteSequence(\h36, FAT16_MAGIC, Some("has_boot_sector"), "Vfat"),
    ByteSequence(\h52, FAT32_MAGIC, Some("has_boot_sector"), "Vfat"),
    ByteSequence(3, NTFS_MAGIC, Some("has_boot_sector"), "Ntfs"),
    ByteSequence(3, EXFAT_MAGIC, None, "ExFat"),
    ByteSequence(4096 - 10, SWAP_MAGIC_2, None, "Swap"),
    ByteSequence(4096 - 10, SWAP_MAGIC, None, "Swap"),
    ByteSequence(\h8001, ISO9660_MAGIC, None, "Iso9660"),
    ByteSequence(\h8801, ISO9660_MAGIC, None, "Iso9660"),
    ByteSequence(\h9001, ISO9660_MAGIC, None, "Iso9660") >>

\* secondary_check: None, or Some(has_boot_sector)
signatures == <<
    ByteSequence(\h36, FAT12_MAGIC, Some("has_boot_sector"), "Vfat"),
    ByteSequence(\h36, FAT16_MAGIC, Some("has_boot_sector"), "Vfat"),
    ByteSequence(\h52, FAT32_MAGIC, Some("has_boot_sector"), "Vfat"),
    ByteSequence(3, NTFS_MAGIC, Some("has_boot_sector"), "Ntfs"),
    ByteSequence(3, EXFAT_MAGIC, None, "ExFat"),
    ByteSequence(4096 - 10, SWAP_MAGIC_2, None, "Swap"),
    ByteSequence(4096 - 10, SWAP_MAGIC, None, "Swap"),
    MagicU32(0, XFS_MAGIC, "Xfs"),
    MagicU16(1080, EXT4_MAGIC, "Ext4"),
    ByteSequence(\h8001, ISO9660_MAGIC, None, "Iso9660"),
    ByteSequence(\h8801, ISO9660_MAGIC, None, "Iso9660"),
    ByteSequence(\h9001, ISO9660_MAGIC, None, "Iso9660"),
    MagicU64(65600, BTRFS_MAGIC, "Btrfs") >>

fs_type_to_string(t) ==
    CASE t = "ExFat" -> "exfat"
      [] t = "Btrfs" -> "btrfs"
      [] t = "Xfs" -> "xfs"
      [] t = "Ntfs" -> "ntfs"
      [] t = "Vfat" -> "vfat"
      [] t = "Ext4" -> "ext4"
      [] t = "Swap" -> "swap"
      [] t = "Iso9660" -> "iso9660"

(***************************************************************************)
(* A device node is [readable, len, stamps]: len bytes, all zero except    *)
(* where a stamp of StampPool (named by its index) is written; where two   *)
(* stamps overlap the one of higher index is written last.                 *)
(***************************************************************************)
StampPool == <<
    [at |-> \h36, bytes |-> FAT12_MAGIC],
    [at |-> \h36, bytes |-> FAT16_MAGIC],
    [at |-> \h52, bytes |-> FAT32_MAGIC],
    [at |-> 3, bytes |-> NTFS_MAGIC],
    [at |-> 3, bytes |-> EXFAT_MAGIC],
    [at |-> 4086, bytes |-> SWAP_MAGIC_2],
    [at |-> 4086, bytes |-> SWAP_MAGIC],
    [at |-> 0, bytes |-> <<\h42, \h53, \h46, \h58>>],
    [at |-> 1080, bytes |-> <<\h53, \hEF>>],
    [at |-> \h8001, bytes |-> ISO9660_MAGIC],
    [at |-> \h8801, bytes |-> ISO9660_MAGIC],
    [at |-> \h9001, bytes |-> ISO9660_MAGIC],
    [at |-> 65600, bytes |-> <<\h3E, \h68, \h23, \h91, 0, 0, 0, 0>>],
    [at |-> 510, bytes |-> <<\h55, \hAA>>],
    [at |-> 0, bytes |-> <<\h58, \h46, \h53, \h42>>],
    [at |-> 1080, bytes |-> <<\hEF, \h53>>],
    [at |-> 65600, bytes |-> <<95, 66, 72, 82, 102, 83, 95, 77>>] >>

Covers(s, pos) == StampPool[s].at <= pos /\ pos < StampPool[s].at + Len(StampPool[s].bytes)

\* the byte at position pos (0-based) of the node's content
ByteAt(f, pos) ==
    LET on == {s \in f.stamps : Covers(s, pos)}
    IN  IF on = {} THEN 0
        ELSE LET s == CHOOSE x \in on : \A y \in on : y <= x
             IN  StampPool[s].bytes[pos - StampPool[s].at + 1]

\* File::seek(SeekFrom::Start(pos)) on a block device: fails past the end
seek(f, pos) == pos <= f.len

\* File::read_exact of n bytes at position pos: fails on a short read.  The
\* buffer is kept as the window it was filled from.
read_exact(f, pos, n) ==
    IF pos + n <= f.len
    THEN Ok([file |-> f, start |-> pos, size |-> n])
    ELSE Err

\* buffer[k] (0-based)
BufAt(buf, k) == ByteAt(buf.file, buf.start + k)

\* buffer[from..to] == **signature
SliceEq(buf, from, to, sig) ==
    /\ to - from = Len(sig)
    /\ \A k \in 1..Len(sig) : BufAt(buf, from + k - 1) = sig[k]

\* variant: the marker is not looked at
has_boot_sector_unchecked(buffer) == TRUE

has_boot_sector(buffer) ==
    buffer.size >= 512 /\ BufAt(buffer, 510) = \h55 /\ BufAt(buffer, 511) = \hAA

Max(a, b) == IF a >= b THEN a ELSE b

\* variant: the four bytes decoded big-endian
u32_from_be_bytes(buf) ==
    << 256 * BufAt(buf, 0) + BufAt(buf, 1), 256 * BufAt(buf, 2) + BufAt(buf, 3) >>

\* variant: the two bytes decoded big-endian
u16_from_be_bytes(buf) == 256 * BufAt(buf, 0) + BufAt(buf, 1)

u16_from_le_bytes(buf) == BufAt(buf, 0) + 256 * BufAt(buf, 1)
u32_from_le_bytes(buf) ==
    << BufAt(buf, 2) + 256 * BufAt(buf, 3), BufAt(buf, 0) + 256 * BufAt(buf, 1) >>
u64_from_le_bytes(buf) ==
    << BufAt(buf, 6) + 256 * BufAt(buf, 7), BufAt(buf, 4) + 256 * BufAt(buf, 5),
       BufAt(buf, 2) + 256 * BufAt(buf, 3), BufAt(buf, 0) + 256 * BufAt(buf, 1) >>

\* One iteration of `for sig in &signatures`: TRUE when the iteration
\* returns Ok(Some(..)), FALSE when it continues with the next rule.
ByteSequenceMatches(f, sig) ==
    LET read_size == Max(sig.offset + Len(sig.signature), 4096)
        rd == read_exact(f, 0, read_size)
        end_offset == sig.offset + Len(sig.signature)
    IN  /\ seek(f, 0)
        /\ rd.ok
        /\ (sig.secondary_check # None => has_boot_sector(rd.val))
        /\ SliceEq(rd.val, sig.offset, end_offset, sig.signature)

MagicU16Matches(f, sig) ==
    LET rd == read_exact(f, sig.offset, 2)
    IN  seek(f, sig.offset) /\ rd.ok /\ u16_from_le_bytes(rd.val) = sig.magic

MagicU32Matches(f, sig) ==
    LET rd == read_exact(f, sig.offset, 4)
    IN  seek(f, sig.offset) /\ rd.ok /\ u32_from_le_bytes(rd.val) = sig.magic

MagicU64Matches(f, sig) ==
    LET rd == read_exact(f, sig.offset, 8)
    IN  seek(f, sig.offset) /\ rd.ok /\ u64_from_le_bytes(rd.val) = sig.magic

SigMatches(f, sig) ==
    CASE sig.method = "ByteSequence" -> ByteSequenceMatches(f, sig)
      [] sig.method = "MagicU16" -> MagicU16Matches(f, sig)
      [] sig.method = "MagicU32" -> MagicU32Matches(f, sig)
      [] sig.method = "MagicU64" -> MagicU64Matches(f, sig)

\* the seek and the read of the rule both succeed
RuleIsRead(f, sig) ==
    CASE sig.method = "ByteSequence" ->
            seek(f, 0) /\ read_exact(f, 0, Max(sig.offset + Len(sig.signature), 4096)).ok
      [] sig.method = "MagicU16" -> seek(f, sig.offset) /\ read_exact(f, sig.offset, 2).ok
      [] sig.method = "MagicU32" -> seek(f, sig.offset) /\ read_exact(f, sig.offset, 4).ok
      [] sig.method = "MagicU64" -> seek(f, sig.offset) /\ read_exact(f, sig.offset, 8).ok

\* variant: a failed seek or read ends the scan instead of continuing it
RECURSIVE ScanFromUntilFailure(_, _, _)
ScanFromUntilFailure(f, sigs, k) ==
    IF k > Len(sigs) THEN Ok(None)
    ELSE IF ~RuleIsRead(f, sigs[k]) THEN Ok(None)
    ELSE IF SigMatches(f, sigs[k]) THEN Ok(Some(fs_type_to_string(sigs[k].fs_type)))
    ELSE ScanFromUntilFailure(f, sigs, k + 1)

\* the loop over the table from rule k on, and the fall-through Ok(None)
RECURSIVE ScanFrom(_, _, _)
ScanFrom(f, sigs, k) ==
    IF k > Len(sigs) THEN Ok(None)
    ELSE IF SigMatches(f, sigs[k]) THEN Ok(Some(fs_type_to_string(sigs[k].fs_type)))
    ELSE ScanFrom(f, sigs, k + 1)

DevDir == <<47, 100, 101, 118, 47>>    \* "/dev/"

\* variant: the permission of the node is not looked at
CanOpenUnchecked(fs, path) == path \in DOMAIN fs

\* File::open(&path)
CanOpen(fs, path) == path \in DOMAIN fs /\ fs[path].readable

get_fstype_with_magic(fs, device) ==
    LET path == DevDir \o device
    IN  IF ~CanOpen(fs, path) THEN Err
        ELSE ScanFrom(fs[path], signatures, 1)


(***************************************************************************)
(* combined.rs: CombinedDeviceInfo::new.                                   *)
(***************************************************************************)

\* String::cmp: byte-wise lexicographic
RECURSIVE cmp(_, _)
cmp(a, b) ==
    IF a = <<>> /\ b = <<>> THEN "Equal"
    ELSE IF a = <<>> THEN "Less"
    ELSE IF b = <<>> THEN "Greater"
    ELSE IF Head(a) < Head(b) THEN "Less"
    ELSE IF Head(a) > Head(b) THEN "Greater"
    ELSE cmp(Tail(a), Tail(b))

\* variant: the comparator with its arguments exchanged
by_name_reversed(a, b) == cmp(b.name, a.name)

\* the comparator of both sort_by calls: |a, b| a.name.cmp(&b.name)
by_name(a, b) == cmp(a.name, b.name)

\* variant: no ordering, the element is left where it was pushed
InsertAtEnd(s, x) == Append(s, x)

\* one insertion of a stable sort: x goes after every element not greater
InsertSorted(s, x) ==
    LET k == Cardinality({m \in 1..Len(s) : by_name(s[m], x) # "Greater"})
    IN  SubSeq(s, 1, k) \o <<x>> \o SubSeq(s, k + 1, Len(s))

\* slice::sort_by (stable)
RECURSIVE sort_by(_)
sort_by(s) ==
    IF s = <<>> THEN <<>>
    ELSE InsertSorted(sort_by(SubSeq(s, 1, Len(s) - 1)), s[Len(s)])

\* Iterator::find: the first element satisfying P, as an Option
find(s, P(_)) ==
    LET hits == {k \in 1..Len(s) : P(s[k])}
    IN  IF hits = {} THEN None
        ELSE Some(s[CHOOSE k \in hits : \A m \in hits : k <= m])

\* variant: an empty uuid list is collapsed to None
overlay_dev_disk_collapsing(ent, name) ==
    LET found == find(dev_disk, LAMBDA d : d.name = name)
    IN  IF found # None
        THEN [ent EXCEPT !.label = found[1].label,
                         !.uuids = IF found[1].uuid = Some(<<>>) THEN None
                                   ELSE found[1].uuid]
        ELSE ent

\* "Add information from `/dev/disk`"
overlay_dev_disk(ent, name) ==
    LET found == find(dev_disk, LAMBDA d : d.name = name)
    IN  IF found # None
        THEN [ent EXCEPT !.label = found[1].label, !.uuids = found[1].uuid]
        ELSE ent

\* variant: a live-mount record is taken when its name starts with the name
overlay_proc_mounts_by_prefix(ent, name) ==
    LET found == find(proc_mounts,
                      LAMBDA d : Len(name) <= Len(d.name) /\ SubSeq(d.name, 1, Len(name)) = name)
    IN  IF found # None
        THEN [ent EXCEPT !.mount_point = Some(found[1].mount_point),
                         !.filesystem = Some(found[1].fstype)]
        ELSE ent

\* variant: the last live-mount record of the name is taken for the mount
\* point, the first one for the filesystem
overlay_proc_mounts_mixed(ent, name) ==
    LET idx == {k \in 1..Len(proc_mounts) : proc_mounts[k].name = name}
    IN  IF idx # {}
        THEN [ent EXCEPT !.mount_point =
                             Some(proc_mounts[CHOOSE k \in idx : \A m \in idx : m <= k].mount_point),
                         !.filesystem =
                             Some(proc_mounts[CHOOSE k \in idx : \A m \in idx : k <= m].fstype)]
        ELSE ent

\* "Add information from `/proc/mounts`"
overlay_proc_mounts(ent, name) ==
    LET found == find(proc_mounts, LAMBDA d : d.name = name)
    IN  IF found # None
        THEN [ent EXCEPT !.mount_point = Some(found[1].mount_point),
                         !.filesystem = Some(found[1].fstype)]
        ELSE ent

\* variant: a failed probe leaves a placeholder instead of None
fstype_from_placeholder(res) == IF res.ok THEN res.val ELSE Some("unknown")

\* the match on the result of get_fstype_with_magic: Ok(fs_type) => fs_type,
\* Err(e) => { warn!(..); None }
fstype_from(res) == IF res.ok THEN res.val ELSE None

\* variant: the UUID is not looked at
fstab_matches_label_only(ent, entry) ==
    ent.label # None /\ ("LABEL=" \o ent.label[1]) = entry.device

\* variant: any UUID of the list may name the record, or its raw path
fstab_matches_loosely(ent, entry) ==
    \/ /\ ent.uuids # None
       /\ \E k \in 1..Len(ent.uuids[1]) : ("UUID=" \o ent.uuids[1][k]) = entry.device
    \/ /\ ent.label # None
       /\ ("LABEL=" \o ent.label[1]) = entry.device
    \/ entry.device = "/dev/sda2" /\ ent.name = <<115, 100, 97, 50>>

\* the closure given to fstab.info.iter().find
fstab_matches(ent, entry) ==
    \/ /\ ent.uuids # None
       /\ ent.uuids[1] # <<>>
       /\ ("UUID=" \o ent.uuids[1][1]) = entry.device
    \/ /\ ent.label # None
       /\ ("LABEL=" \o ent.label[1]) = entry.device

\* "Try to find a matching fstab entry"
attach_fstab_entry(ent) ==
    LET found == find(fstab, LAMBDA entry : fstab_matches(ent, entry))
    IN  IF found # None THEN [ent EXCEPT !.fstab_entry = Some(found[1])] ELSE ent

\* variant: the partitions of the device are not looked at
device_needs_magic_any(ent, sb) == ent.filesystem = None

\* variant: the partition is probed whether mounted or not
partition_needs_magic_always(ent) == TRUE

\* the device is probed: filesystem.is_none() && sys_block.part.is_none()
device_needs_magic(ent, sb) == ent.filesystem = None /\ sb.part = None

\* the partition is probed: filesystem.is_none()
partition_needs_magic(ent) == ent.filesystem = None

SeedDevice(sb) ==
    [name |-> sb.name, model |-> Some(sb.info.model), size |-> Some(sb.info.size),
     filesystem |-> None, label |-> None, mount_point |-> None,
     removable |-> Some(sb.info.removable), uuids |-> None, fstab_entry |-> None,
     partitions |-> <<>>]

SeedPartition(part) ==
    [name |-> part.name, size |-> Some(part.info.size), filesystem |-> None,
     label |-> None, mount_point |-> None, removable |-> Some(part.info.removable),
     uuids |-> None, fstab_entry |-> None]

\* `if let Some(parts) = &sys_block.part`: the partitions the inner loop runs over
parts_of(sb) == IF sb.part = None THEN <<>> ELSE sb.part[1]

\* the body of `for sys_block in &sys_block.info` up to the partition loop
DeviceHead ==
    /\ pc = "for_device"
    /\ i <= Len(sys_block)
    /\ LET sb == sys_block[i]
           d1 == overlay_proc_mounts(overlay_dev_disk(SeedDevice(sb), sb.name), sb.name)
           probe == device_needs_magic(d1, sb)
           d2 == IF probe
                 THEN [d1 EXCEPT !.filesystem =
                                    fstype_from(get_fstype_with_magic(devfs, sb.name))]
                 ELSE d1
       IN  /\ combined_device' = Some(attach_fstab_entry(d2))
           /\ probes' = IF probe THEN Append(probes, sb.name) ELSE probes
    /\ j' = 1
    /\ pc' = "for_part"
    /\ UNCHANGED <<sys_block, dev_disk, proc_mounts, fstab, devfs, i, combined_info,
                   prev_info, mdevice, mresult, size_vars,
                   sources, stdout, printed>>

\* one iteration of `for part in parts`
PartitionIter ==
    /\ pc = "for_part"
    /\ j <= Len(parts_of(sys_block[i]))
    /\ LET part == parts_of(sys_block[i])[j]
           p1 == overlay_proc_mounts(overlay_dev_disk(SeedPartition(part), part.name),
                                     part.name)
           p2 == attach_fstab_entry(p1)
           probe == partition_needs_magic(p2)
           p3 == IF probe
                 THEN [p2 EXCEPT !.filesystem =
                                    fstype_from(get_fstype_with_magic(devfs, part.name))]
                 ELSE p2
       IN  /\ combined_device' =
                  Some([combined_device[1] EXCEPT !.partitions = Append(@, p3)])
           /\ probes' = IF probe THEN Append(probes, part.name) ELSE probes
    /\ j' = j + 1
    /\ UNCHANGED <<sys_block, dev_disk, proc_mounts, fstab, devfs, pc, i, combined_info,
                   prev_info, mdevice, mresult, size_vars,
                   sources, stdout, printed>>

\* "Sort partitions" and combined_info.push(combined_device)
DeviceTail ==
    /\ pc = "for_part"
    /\ j > Len(parts_of(sys_block[i]))
    /\ combined_info' =
           Append(combined_info,
                  [combined_device[1] EXCEPT !.partitions = sort_by(@)])
    /\ combined_device' = None
    /\ i' = i + 1
    /\ j' = 0
    /\ pc' = "for_device"
    /\ UNCHANGED <<sys_block, dev_disk, proc_mounts, fstab, devfs, probes,
                   prev_info, mdevice, mresult, size_vars,
                   sources, stdout, printed>>

\* "Sort devices" and return
Return ==
    /\ pc = "for_device"
    /\ i > Len(sys_block)
    /\ combined_info' = sort_by(combined_info)
    /\ pc' = "done"
    /\ UNCHANGED <<sys_block, dev_disk, proc_mounts, fstab, devfs, i, j,
                   combined_device, probes, prev_info, mdevice, mresult, size_vars,
                   sources, stdout, printed>>


(***************************************************************************)
(* sys_block.rs: read_size, and combined.rs: readable_size_from.           *)
(***************************************************************************)
DigitChars == <<"0", "1", "2", "3", "4", "5", "6", "7", "8", "9">>

\* format!("{}", n) of an unsigned integer
RECURSIVE to_string(_)
to_string(n) ==
    IF n < 10 THEN DigitChars[n + 1]
    ELSE to_string(n \div 10) \o DigitChars[(n % 10) + 1]

\* the bytes of the decimal digits of n, as the kernel writes them
RECURSIVE DigitBytes(_)
DigitBytes(n) ==
    IF n < 10 THEN <<48 + n>> ELSE Append(DigitBytes(n \div 10), 48 + (n % 10))

\* the content of /sys/block/{device}/size: the sector count and a newline
SizeFile(n) == Append(DigitBytes(n), 10)

IsWhitespace(b) == b \in {9, 10, 11, 12, 13, 32}

\* str::trim
RECURSIVE trim_start(_)
trim_start(str) ==
    IF str # <<>> /\ IsWhitespace(Head(str)) THEN trim_start(Tail(str)) ELSE str

RECURSIVE trim_end(_)
trim_end(str) ==
    IF str # <<>> /\ IsWhitespace(str[Len(str)])
    THEN trim_end(SubSeq(str, 1, Len(str) - 1))
    ELSE str

trim(str) == trim_end(trim_start(str))

\* str::parse::<u64>: Err on an empty string or on a byte that is no digit
RECURSIVE ParseDigits(_, _)
ParseDigits(str, acc) ==
    IF str = <<>> THEN acc
    ELSE ParseDigits(Tail(str), 10 * acc + (Head(str) - 48))

parse_u64(str) ==
    IF str = <<>> \/ \E k \in 1..Len(str) : str[k] \notin 48..57
    THEN Err
    ELSE Ok(ParseDigits(str, 0))

\* variant: the sector count is taken as a byte count
read_size_unscaled(size_str) == parse_u64(trim(size_str))

\* .map(|blocks| blocks * 512)
read_size(size_str) ==
    LET parsed == parse_u64(trim(size_str))
    IN  IF parsed.ok THEN Ok(parsed.val * 512) ELSE Err

UNITS == <<"B", "KB", "MB", "GB", "TB", "PB">>

\* `while size >= 1024.0 && unit_index < UNITS.len() - 1`: the value is
\* num / den, den a power of 1024, which an f64 holds exactly below 2^53
RECURSIVE ScaleDown(_, _, _)
ScaleDown(num, den, unit_index) ==
    IF (num \div den) >= 1024 /\ unit_index < Len(UNITS) - 1
    THEN ScaleDown(num, den * 1024, unit_index + 1)
    ELSE [num |-> num, den |-> den, unit_index |-> unit_index]

\* format!("{:.1}", num / den): one decimal, the exact value rounded to the
\* nearest tenth, a tie to the even digit
OneDecimal(num, den) ==
    LET whole == num \div den
        t == 10 * (num % den)
        tenth == t \div den
        rest == t % den
        up == 2 * rest > den \/ (2 * rest = den /\ tenth % 2 = 1)
        digit == IF up THEN tenth + 1 ELSE tenth
    IN  IF digit = 10 THEN to_string(whole + 1) \o ".0"
        ELSE to_string(whole) \o "." \o to_string(digit)

readable_size_from(size) ==
    LET v == ScaleDown(size, 1, 0)
    IN  IF v.unit_index = 0 THEN to_string(v.num) \o UNITS[1]
        ELSE IF v.num % v.den = 0 THEN to_string(v.num \div v.den) \o UNITS[v.unit_index + 1]
        ELSE OneDecimal(v.num, v.den) \o UNITS[v.unit_index + 1]

(***************************************************************************)
(* combined.rs: the two Display impls and format_common_fields.  A line is *)
(* a string without its newline; the glyphs U+26CA (device), U+26C9        *)
(* (partition) and U+2022 (bullet) are written by their code points.  The  *)
(* value of a rendering is the lines written and whether it panicked.      *)
(***************************************************************************)
DEVICE_GLYPH == "<U+26CA>"
PARTITION_GLYPH == "<U+26C9>"
BULLET == "<U+2022>"

LetterChars == <<"a", "b", "c", "d", "e", "f", "g", "h", "i", "j", "k", "l", "m",
                 "n", "o", "p", "q", "r", "s", "t", "u", "v", "w", "x", "y", "z">>

\* the text of a name kept as bytes (digits and lower-case letters)
RECURSIVE NameText(_)
NameText(name) ==
    IF name = <<>> THEN ""
    ELSE (IF Head(name) \in 48..57 THEN DigitChars[Head(name) - 47]
          ELSE LetterChars[Head(name) - 96]) \o NameText(Tail(name))

Written(lines) == [lines |-> lines, panicked |-> FALSE]
Panicked(lines) == [lines |-> lines, panicked |-> TRUE]

\* `if let Some(x) = field { writeln!(..) }`
FieldLine(field, text(_)) == IF field = None THEN <<>> ELSE <<text(field[1])>>

\* variant: a list of two values is written as its first value only
uuid_lines_first_only(indent, uuids) ==
    IF uuids = None THEN Written(<<>>)
    ELSE IF uuids[1] = <<>> THEN Panicked(<<>>)
    ELSE Written(<<indent \o BULLET \o " UUID: " \o uuids[1][1]>>)

\* `if let Some(uuids) = uuids`: uuids[0] and uuids[1] are indexed without a
\* bounds test, and an index past the end panics
uuid_lines(indent, uuids) ==
    IF uuids = None THEN Written(<<>>)
    ELSE LET u == uuids[1]
         IN  IF Len(u) = 1
             THEN Written(<<indent \o BULLET \o " UUID: " \o u[1]>>)
             ELSE IF Len(u) < 2 THEN Panicked(<<>>)
             ELSE Written(<<indent \o BULLET \o " UUID: " \o u[1] \o " (" \o u[2] \o ")">>)

RECURSIVE option_lines(_, _)
option_lines(indent, options) ==
    IF options = <<>> THEN <<>>
    ELSE <<indent \o "    " \o BULLET \o " " \o Head(options)>>
             \o option_lines(indent, Tail(options))

fstab_entry_lines(indent, fstab_entry) ==
    IF fstab_entry = None THEN <<>>
    ELSE LET e == fstab_entry[1]
             extra_indent == "  "
         IN  << indent \o BULLET \o " Fstab Entry:",
                indent \o extra_indent \o BULLET \o " Device: " \o e.device,
                indent \o extra_indent \o BULLET \o " Mount Point: " \o e.mount_point,
                indent \o extra_indent \o BULLET \o " Filesystem: " \o e.fs_type,
                indent \o extra_indent \o BULLET \o " Options:" >>
             \o option_lines(indent, e.options)
             \o << indent \o extra_indent \o BULLET \o " Dump Frequency: "
                       \o to_string(e.dump_freq),
                   indent \o extra_indent \o BULLET \o " fsck Pass: "
                       \o to_string(e.fsck_pass) >>

format_common_fields(indent, e) ==
    LET before ==
            FieldLine(e.size, LAMBDA v : indent \o BULLET \o " Size: " \o readable_size_from(v))
            \o FieldLine(e.filesystem, LAMBDA v : indent \o BULLET \o " Filesystem: " \o v)
            \o FieldLine(e.label, LAMBDA v : indent \o BULLET \o " Label: " \o v)
            \o FieldLine(e.mount_point, LAMBDA v : indent \o BULLET \o " Mount Point: " \o v)
            \o FieldLine(e.removable,
                         LAMBDA v : indent \o BULLET \o " Removable: "
                                        \o (IF v THEN "Yes" ELSE "No"))
        uuid == uuid_lines(indent, e.uuids)
    IN  IF uuid.panicked THEN Panicked(before)
        ELSE Written(before \o uuid.lines \o fstab_entry_lines(indent, e.fstab_entry))

\* impl Display for CombinedPartitionInfo, after the caller's write!(f, "    ")
fmt_partition(p) ==
    LET head == <<"    " \o PARTITION_GLYPH \o " " \o NameText(p.name)>>
        common == format_common_fields("      ", p)
    IN  [lines |-> head \o common.lines, panicked |-> common.panicked]

\* `for partition in &self.partitions`: the first panic ends the loop
RECURSIVE fmt_partitions(_)
fmt_partitions(partitions) ==
    IF partitions = <<>> THEN Written(<<>>)
    ELSE LET first == fmt_partition(Head(partitions))
         IN  IF first.panicked THEN first
             ELSE LET rest == fmt_partitions(Tail(partitions))
                  IN  [lines |-> first.lines \o rest.lines, panicked |-> rest.panicked]

\* impl Display for CombinedDeviceInfo
fmt_device(d) ==
    LET indent == "  "
        head == <<DEVICE_GLYPH \o " " \o NameText(d.name)>>
                    \o FieldLine(d.model, LAMBDA v : indent \o BULLET \o " Model: " \o v)
        common == format_common_fields(indent, d)
    IN  IF common.panicked THEN Panicked(head \o common.lines)
        ELSE IF d.partitions = <<>> THEN Written(head \o common.lines)
        ELSE LET parts == fmt_partitions(d.partitions)
             IN  [lines |-> head \o common.lines
                                \o <<indent \o BULLET \o " Partitions:">> \o parts.lines,
                  panicked |-> parts.panicked]

(***************************************************************************)
(* The inputs: what the four readers and /dev can hand over.               *)
(***************************************************************************)
Min(a, b) == IF a <= b THEN a ELSE b

\* sequences of at most n pairwise distinct elements of S
SeqsNoRep(S, n) ==
    UNION {{s \in [1..k -> S] : \A a, b \in 1..k : a # b => s[a] # s[b]} : k \in 0..n}

sda == <<115, 100, 97>>
sdb == <<115, 100, 98>>
sdc == <<115, 100, 99>>
DevPool == <<sda, sdb, sdc>>
\* partition suffixes "10", "2", "1": "sda10" sorts before "sda2"
PartSuffixPool == << <<49, 48>>, <<50>>, <<49>> >>
sda10 == sda \o PartSuffixPool[1]
sda2 == sda \o PartSuffixPool[2]
sda1 == sda \o PartSuffixPool[3]

DevNames == {DevPool[k] : k \in 1..Min(MaxDevs, Len(DevPool))}
\* only sda carries partitions
PartNames(dev) ==
    IF dev = sda
    THEN {dev \o PartSuffixPool[k] : k \in 1..Min(MaxParts, Len(PartSuffixPool))}
    ELSE {}

RECURSIVE ByteSum(_)
ByteSum(name) == IF name = <<>> THEN 0 ELSE Head(name) + ByteSum(Tail(name))

\* read_size of /sys/block/../size, the sector count being made from the name
SizeOf(name) == read_size(SizeFile(ByteSum(name))).val

\* SysBlockPartition; removable is read by combined.rs from part.info
SysBlockPartition(name) ==
    [name |-> name, info |-> [size |-> SizeOf(name), removable |-> FALSE]]

\* SysBlockDevice::new: part is None when the device has no partition entry
PartOptions(dev) ==
    {None} \cup
    {Some([k \in DOMAIN ns |-> SysBlockPartition(ns[k])]) :
        ns \in SeqsNoRep(PartNames(dev), MaxParts) \ {<<>>}}

SysBlockDevice(n, p) ==
    [name |-> n,
     info |-> [model |-> "Disk", removable |-> (n # sda), size |-> SizeOf(n)],
     part |-> p]

SysBlockDevices == UNION {{SysBlockDevice(n, p) : p \in PartOptions(n)} : n \in DevNames}

\* SysBlockInfo::new: one record per entry of /sys/block, names distinct
SysBlockInputs ==
    UNION {{s \in [1..k -> SysBlockDevices] :
                \A a, b \in 1..k : a # b => s[a].name # s[b].name} : k \in 0..MaxDevs}

\* DevDisk: label and uuid as /dev/disk/by-label and by-uuid give them: a
\* record has a label or a uuid list, and a uuid list has one value for
\* every link of by-uuid that points to the device, so at least one
DevDiskValuesRead ==
    { [label |-> Some("L"), uuid |-> Some(<<"A", "B">>)],
      [label |-> None, uuid |-> Some(<<"A">>)],
      [label |-> Some("L"), uuid |-> None],
      [label |-> Some("L"), uuid |-> Some(<<"A", "B", "D">>)] }

\* the type Option<Vec<String>> also admits a present-but-empty uuid list
DevDiskValues == DevDiskValuesRead \cup { [label |-> None, uuid |-> Some(<<>>)] }

DevDisk(n, v) == [name |-> n, label |-> v.label, uuid |-> v.uuid]

DevDiskLists(values) ==
    {<<>>} \cup
    {<<DevDisk(n, v)>> : n \in {sda, sda2}, v \in values} \cup
    {<<DevDisk(sdb, [label |-> Some("B"), uuid |-> Some(<<"C">>)]), DevDisk(n, v)>> :
        n \in {sda, sda2}, v \in values}

\* DevDiskInfo::new: one record per device name (the names come from a set)
DevDiskReadInputs == DevDiskLists(DevDiskValuesRead)

\* the values of DevDiskInfo that CombinedDeviceInfo::new can be called with
DevDiskInputs == DevDiskLists(DevDiskValues)

\* ProcMounts: a device may be mounted at more than one mount point
ProcMountsPool ==
    { [name |-> sda, mount_point |-> "/", fstype |-> "ext4"],
      [name |-> sda2, mount_point |-> "/home", fstype |-> "btrfs"],
      [name |-> sda2, mount_point |-> "/mnt", fstype |-> "ntfs"] }

ProcMountsInputs == SeqsNoRep(ProcMountsPool, MaxMounts)

\* Fstab::from_mntent
Fstab(device, mount_point, fs_type, options, dump_freq, fsck_pass) ==
    [device |-> device, mount_point |-> mount_point, fs_type |-> fs_type,
     options |-> options, dump_freq |-> dump_freq, fsck_pass |-> fsck_pass]

FstabPool ==
    { Fstab("UUID=A", "/", "ext4", <<"defaults">>, 0, 1),
      Fstab("LABEL=L", "/home", "btrfs", <<"rw", "noatime">>, 0, 2),
      Fstab("UUID=B", "/boot", "vfat", <<"umask=0077">>, 0, 2),
      Fstab("/dev/sda2", "/mnt", "ntfs", <<"ro">>, 0, 0) }

FstabInputs == SeqsNoRep(FstabPool, MaxFstab)

Node(readable, len, stamps) == [readable |-> readable, len |-> len, stamps |-> stamps]

\* /dev as root sees it: sda carries the XFS and ext4 magics, sda2 a FAT32
\* boot sector and the ext4 magic, sda1 is a short device with the ext4
\* magic, sdb is blank, sdc cannot be read, and the node of sda10 is missing
DevAsRoot ==
    (DevDir \o sda) :> Node(TRUE, 65608, {8, 9}) @@
    (DevDir \o sda2) :> Node(TRUE, 4096, {3, 9, 14}) @@
    (DevDir \o sda1) :> Node(TRUE, 2048, {9}) @@
    (DevDir \o sdb) :> Node(TRUE, 1024, {}) @@
    (DevDir \o sdc) :> Node(FALSE, 4096, {9})

\* /dev as an unprivileged user sees it: no node can be opened
DevAsUser == [p \in DOMAIN DevAsRoot |-> [DevAsRoot[p] EXCEPT !.readable = FALSE]]

DevFsInputs == {DevAsRoot, DevAsUser}

\* no direct call of read_size or readable_size_from is under way
NoSizeCall == blocks = 0 /\ size_bytes = None /\ size_text = None

\* nothing is printed
NoOutput == stdout = <<>> /\ printed = 0

\* the four readers returned nothing of interest
NoSources ==
    sources = [sys_block |-> Ok(<<>>), dev_disk |-> Ok(<<>>),
               proc_mounts |-> Ok(<<>>), fstab |-> Ok(<<>>)]

Init ==
    /\ sys_block \in SysBlockInputs
    /\ dev_disk \in DevDiskInputs
    /\ proc_mounts \in ProcMountsInputs
    /\ fstab \in FstabInputs
    /\ devfs \in DevFsInputs
    /\ pc = "for_device"
    /\ i = 1
    /\ j = 0
    /\ combined_device = None
    /\ combined_info = <<>>
    /\ probes = <<>>
    /\ prev_info = None
    /\ mdevice = None
    /\ mresult = None
    /\ NoSizeCall
    /\ NoOutput
    /\ sources = [sys_block |-> Ok(sys_block), dev_disk |-> Ok(dev_disk),
                  proc_mounts |-> Ok(proc_mounts), fstab |-> Ok(fstab)]

Next == DeviceHead \/ PartitionIter \/ DeviceTail \/ Return

Spec == Init /\ [][Next]_vars

(***************************************************************************)
(* CombinedDeviceInfo::new called again on the same records with two       *)
(* neighbouring topology records, or two neighbouring partition records    *)
(* of one device, exchanged.                                               *)
(***************************************************************************)
Swap(s, k) == [s EXCEPT ![k] = s[k + 1], ![k + 1] = s[k]]

RerunPermuted ==
    /\ pc = "done"
    /\ \/ \E k \in 1..(Len(sys_block) - 1) : sys_block' = Swap(sys_block, k)
       \/ \E d \in 1..Len(sys_block) :
            \E k \in 1..(Len(parts_of(sys_block[d])) - 1) :
                 sys_block' =
                    [sys_block EXCEPT ![d].part = Some(Swap(parts_of(sys_block[d]), k))]
    /\ prev_info' = Some(combined_info)
    /\ combined_info' = <<>>
    /\ probes' = <<>>
    /\ i' = 1
    /\ pc' = "for_device"
    /\ UNCHANGED <<dev_disk, proc_mounts, fstab, devfs, j, combined_device,
                   mdevice, mresult, size_vars,
                   sources, stdout, printed>>

NextPerm == DeviceHead \/ PartitionIter \/ DeviceTail \/ Return \/ RerunPermuted

SpecPerm == Init /\ [][NextPerm]_vars

(***************************************************************************)
(* get_fstype_with_magic called on one device node.                        *)
(***************************************************************************)
DeviceLens == {0, 512, 2048, 4096, 40960, 65608}

StampSets == {S \in SUBSET (1..Len(StampPool)) : Cardinality(S) <= MaxStamps}

MagicNodes ==
    {Node(TRUE, n, S) : n \in DeviceLens, S \in StampSets} \cup {Node(FALSE, 4096, {9})}

NoDevFs == [p \in {} |-> Node(FALSE, 0, {})]

\* /dev holding the single node /dev/sda
OnlySda(node) == (DevDir \o sda) :> node

MagicInit ==
    /\ devfs \in {NoDevFs} \cup {OnlySda(node) : node \in MagicNodes}
    /\ mdevice = Some(sda)
    /\ mresult = None
    /\ NoSizeCall
    /\ NoOutput
    /\ NoSources
    /\ pc = "magic"
    /\ sys_block = <<>>
    /\ dev_disk = <<>>
    /\ proc_mounts = <<>>
    /\ fstab = <<>>
    /\ i = 0
    /\ j = 0
    /\ combined_device = None
    /\ combined_info = <<>>
    /\ probes = <<>>
    /\ prev_info = None

CallMagic ==
    /\ pc = "magic"
    /\ mresult' = Some(get_fstype_with_magic(devfs, mdevice[1]))
    /\ pc' = "magic_done"
    /\ UNCHANGED <<sys_block, dev_disk, proc_mounts, fstab, devfs, i, j,
                   combined_device, combined_info, probes, prev_info, mdevice, size_vars,
                   sources, stdout, printed>>

MagicNext == CallMagic

MagicSpec == MagicInit /\ [][MagicNext]_vars


(***************************************************************************)
(* main.rs: the four readers, each followed by .ok().unwrap(), the call of *)
(* CombinedDeviceInfo::new, and the loop that prints every device.         *)
(***************************************************************************)
SourceResults(S) == {Ok(v) : v \in S} \cup {Err}

MainInit ==
    /\ sources \in [sys_block : SourceResults(SysBlockInputs),
                    dev_disk : SourceResults(DevDiskReadInputs),
                    proc_mounts : SourceResults(ProcMountsInputs),
                    fstab : SourceResults(FstabInputs)]
    /\ devfs \in DevFsInputs
    /\ sys_block = <<>>
    /\ dev_disk = <<>>
    /\ proc_mounts = <<>>
    /\ fstab = <<>>
    /\ pc = "main"
    /\ i = 0
    /\ j = 0
    /\ combined_device = None
    /\ combined_info = <<>>
    /\ probes = <<>>
    /\ prev_info = None
    /\ mdevice = None
    /\ mresult = None
    /\ NoSizeCall
    /\ NoOutput

\* SysBlockInfo::new().ok().unwrap()
ReadSysBlock ==
    /\ pc = "main"
    /\ IF sources.sys_block.ok
       THEN sys_block' = sources.sys_block.val /\ pc' = "read_dev_disk"
       ELSE sys_block' = sys_block /\ pc' = "unwrap_panicked"
    /\ UNCHANGED <<dev_disk, proc_mounts, fstab, devfs, i, j, combined_device,
                   combined_info, probes, prev_info, mdevice, mresult, size_vars,
                   sources, stdout, printed>>

\* DevDiskInfo::new().ok().unwrap()
ReadDevDisk ==
    /\ pc = "read_dev_disk"
    /\ IF sources.dev_disk.ok
       THEN dev_disk' = sources.dev_disk.val /\ pc' = "read_proc_mounts"
       ELSE dev_disk' = dev_disk /\ pc' = "unwrap_panicked"
    /\ UNCHANGED <<sys_block, proc_mounts, fstab, devfs, i, j, combined_device,
                   combined_info, probes, prev_info, mdevice, mresult, size_vars,
                   sources, stdout, printed>>

\* variant: a failed reader is replaced by an empty record list
ReadProcMountsOrDefault ==
    /\ pc = "read_proc_mounts"
    /\ proc_mounts' = IF sources.proc_mounts.ok THEN sources.proc_mounts.val ELSE <<>>
    /\ pc' = "read_fstab"
    /\ UNCHANGED <<sys_block, dev_disk, fstab, devfs, i, j, combined_device,
                   combined_info, probes, prev_info, mdevice, mresult, size_vars,
                   sources, stdout, printed>>

\* ProcMountsInfo::new().ok().unwrap()
ReadProcMounts ==
    /\ pc = "read_proc_mounts"
    /\ IF sources.proc_mounts.ok
       THEN proc_mounts' = sources.proc_mounts.val /\ pc' = "read_fstab"
       ELSE proc_mounts' = proc_mounts /\ pc' = "unwrap_panicked"
    /\ UNCHANGED <<sys_block, dev_disk, fstab, devfs, i, j, combined_device,
                   combined_info, probes, prev_info, mdevice, mresult, size_vars,
                   sources, stdout, printed>>

\* FstabInfo::new().ok().unwrap(), and the entry into CombinedDeviceInfo::new
ReadFstab ==
    /\ pc = "read_fstab"
    /\ IF sources.fstab.ok
       THEN fstab' = sources.fstab.val /\ pc' = "for_device" /\ i' = 1
       ELSE fstab' = fstab /\ pc' = "unwrap_panicked" /\ i' = i
    /\ UNCHANGED <<sys_block, dev_disk, proc_mounts, devfs, j, combined_device,
                   combined_info, probes, prev_info, mdevice, mresult, size_vars,
                   sources, stdout, printed>>

\* one iteration of `for device in combined_device_info`: println!("{device}")
\* writes the block and an empty line; a panic inside fmt ends the process
\* after the lines already written
PrintDevice ==
    /\ pc = "done"
    /\ printed < Len(combined_info)
    /\ LET out == fmt_device(combined_info[printed + 1])
       IN  IF out.panicked
           THEN /\ stdout' = stdout \o out.lines
                /\ pc' = "fmt_panicked"
                /\ printed' = printed
           ELSE /\ stdout' = stdout \o out.lines \o <<"">>
                /\ pc' = pc
                /\ printed' = printed + 1
    /\ UNCHANGED <<sys_block, dev_disk, proc_mounts, fstab, devfs, i, j, combined_device,
                   combined_info, probes, prev_info, mdevice, mresult, size_vars, sources>>

\* the end of main
Exit ==
    /\ pc = "done"
    /\ printed = Len(combined_info)
    /\ pc' = "exit"
    /\ UNCHANGED <<sys_block, dev_disk, proc_mounts, fstab, devfs, i, j, combined_device,
                   combined_info, probes, prev_info, mdevice, mresult, size_vars,
                   sources, stdout, printed>>

MainNext ==
    \/ ReadSysBlock \/ ReadDevDisk \/ ReadProcMounts \/ ReadFstab
    \/ DeviceHead \/ PartitionIter \/ DeviceTail \/ Return
    \/ PrintDevice \/ Exit

MainSpec == MainInit /\ [][MainNext]_vars


(***************************************************************************)
(* CombinedDeviceInfo::new called with any value of its argument types,    *)
(* and every device it returns printed with its Display impl.              *)
(***************************************************************************)
PrintNext == DeviceHead \/ PartitionIter \/ DeviceTail \/ Return \/ PrintDevice \/ Exit

PrintSpec == Init /\ [][PrintNext]_vars


(***************************************************************************)
(* Direct calls of read_size and readable_size_from: the size file holds a *)
(* sector count, read_size converts it, readable_size_from renders it.     *)
(***************************************************************************)
MaxBlocks == 4100

\* sector counts: every small one, and some whose size is in the MB range
BlockCounts == (0..MaxBlocks) \cup {204800, 204801, 262144}

SizeInit ==
    /\ blocks \in BlockCounts
    /\ size_bytes = None
    /\ size_text = None
    /\ pc = "size"
    /\ sys_block = <<>>
    /\ dev_disk = <<>>
    /\ proc_mounts = <<>>
    /\ fstab = <<>>
    /\ devfs = NoDevFs
    /\ i = 0
    /\ j = 0
    /\ combined_device = None
    /\ combined_info = <<>>
    /\ probes = <<>>
    /\ prev_info = None
    /\ mdevice = None
    /\ mresult = None
    /\ NoOutput
    /\ NoSources

CallReadSize ==
    /\ pc = "size"
    /\ size_bytes' = Some(read_size(SizeFile(blocks)))
    /\ pc' = "size_read"
    /\ UNCHANGED <<sys_block, dev_disk, proc_mounts, fstab, devfs, i, j, combined_device,
                   combined_info, probes, prev_info, mdevice, mresult, blocks, size_text,
                   sources, stdout, printed>>

CallReadableSize ==
    /\ pc = "size_read"
    /\ size_bytes[1].ok
    /\ size_text' = Some(readable_size_from(size_bytes[1].val))
    /\ pc' = "size_done"
    /\ UNCHANGED <<sys_block, dev_disk, proc_mounts, fstab, devfs, i, j, combined_device,
                   combined_info, probes, prev_info, mdevice, mresult, blocks, size_bytes,
                   sources, stdout, printed>>

SizeNext == CallReadSize \/ CallReadableSize

SizeSpec == SizeInit /\ [][SizeNext]_vars


(***************************************************************************)
(* Vocabulary of the properties.                                           *)
(***************************************************************************)
OutDevices == {combined_info[k] : k \in 1..Len(combined_info)}
OutPartitions ==
    UNION {{d.partitions[m] : m \in 1..Len(d.partitions)} : d \in OutDevices}
\* the name, filesystem, label, mount_point, uuids and fstab_entry of every
\* device and partition of the output
Common(e) ==
    [name |-> e.name, size |-> e.size, filesystem |-> e.filesystem, label |-> e.label,
     mount_point |-> e.mount_point, uuids |-> e.uuids, fstab_entry |-> e.fstab_entry]
OutEntities == {Common(e) : e \in OutDevices} \cup {Common(e) : e \in OutPartitions}

\* a < b in the byte-wise lexicographic order
BytewiseLess(a, b) ==
    \/ Len(a) < Len(b) /\ \A k \in 1..Len(a) : a[k] = b[k]
    \/ \E k \in 1..Min(Len(a), Len(b)) :
          a[k] < b[k] /\ \A m \in 1..(k - 1) : a[m] = b[m]

MountsOf(n) == {k \in 1..Len(proc_mounts) : proc_mounts[k].name = n}
LabelsOf(n) == {k \in 1..Len(dev_disk) : dev_disk[k].name = n}

\* the static-mount records that name the entity by its first UUID / its label
ByUuid(e) ==
    {k \in 1..Len(fstab) :
        e.uuids # None /\ e.uuids[1] # <<>> /\ fstab[k].device = "UUID=" \o e.uuids[1][1]}
ByLabel(e) ==
    {k \in 1..Len(fstab) : e.label # None /\ fstab[k].device = "LABEL=" \o e.label[1]}
\* the first of them in table order, as an Option
FirstRef(e) ==
    LET refs == ByUuid(e) \cup ByLabel(e)
    IN  IF refs = {} THEN None
        ELSE Some(fstab[CHOOSE k \in refs : \A m \in refs : k <= m])

InPartitions == UNION {{parts_of(sys_block[d])[m] : m \in 1..Len(parts_of(sys_block[d]))} :
                          d \in 1..Len(sys_block)}
InDevices == {sys_block[d] : d \in 1..Len(sys_block)}

(***************************************************************************)
(* C1: the returned device list is sorted by name, byte-wise, and so are   *)
(* the partitions of every device: one entity precedes another if and only *)
(* if its name is the smaller.                                             *)
(***************************************************************************)
C1_OutputSorted ==
    pc = "done" =>
        /\ \A a, b \in 1..Len(combined_info) :
              a < b <=> BytewiseLess(combined_info[a].name, combined_info[b].name)
        /\ \A d \in OutDevices : \A a, b \in 1..Len(d.partitions) :
              a < b <=> BytewiseLess(d.partitions[a].name, d.partitions[b].name)

C1_Witness ==
    /\ pc = "done"
    /\ Len(sys_block) = 2
    /\ sys_block[1].name = sdb
    /\ \E d \in InDevices : Len(parts_of(d)) = 2 /\ parts_of(d)[1].name = sda2
    /\ Len(combined_info) = 2
    /\ Len(combined_info[1].partitions) = 2

(***************************************************************************)
(* C2: calling new again with the topology records, or the partition       *)
(* records of one topology record, permuted and the other records          *)
(* unchanged returns the same sequence of devices and partitions.          *)
(***************************************************************************)
C2_OrderIndependent ==
    (pc = "done" /\ prev_info # None) => combined_info = prev_info[1]

C2_Witness ==
    /\ pc = "done"
    /\ prev_info # None
    /\ Len(combined_info) = 2
    /\ \E d \in OutDevices : Len(d.partitions) = 2 /\ d.partitions[2].filesystem # None

(***************************************************************************)
(* C3: an entity that has a live-mount record of its name takes its        *)
(* filesystem from such a record and the detection engine is not called    *)
(* for it, whatever the bytes of its device node would match.              *)
(***************************************************************************)
C3_LiveMountWins ==
    pc = "done" =>
        \A e \in OutEntities :
            MountsOf(e.name) # {} =>
                /\ \E k \in MountsOf(e.name) : e.filesystem = Some(proc_mounts[k].fstype)
                /\ \A k \in 1..Len(probes) : probes[k] # e.name

C3_Witness ==
    /\ pc = "done"
    /\ \E e \in OutEntities :
          /\ e.name = sda2
          /\ e.filesystem = Some("btrfs")
          /\ get_fstype_with_magic(devfs, sda2) = Ok(Some("vfat"))

(***************************************************************************)
(* C4, as claimed: whenever the static-mount list holds a record naming    *)
(* the first UUID of an entity, the attached fstab_entry is a record       *)
(* naming that UUID, whatever the label of the entity.                     *)
(***************************************************************************)
C4_UuidAlwaysWins ==
    pc = "done" =>
        \A e \in OutEntities :
            ByUuid(e) # {} =>
                /\ e.fstab_entry # None
                /\ \E k \in ByUuid(e) : e.fstab_entry = Some(fstab[k])

(***************************************************************************)
(* C4, amended: whenever the static-mount list holds a record naming the   *)
(* first UUID of an entity, fstab_entry is present and is the first record *)
(* in table order that names the entity by that UUID or by its label; it   *)
(* names the UUID when no record naming the label stands before every      *)
(* record naming the UUID.                                                 *)
(***************************************************************************)
C4_FirstReferenceWins ==
    pc = "done" =>
        \A e \in OutEntities :
            ByUuid(e) # {} =>
                /\ e.fstab_entry # None
                /\ e.fstab_entry = FirstRef(e)
                /\ (\A m \in ByLabel(e) : \E k \in ByUuid(e) : k < m)
                      => \E k \in ByUuid(e) : e.fstab_entry = Some(fstab[k])

C4_Witness ==
    /\ pc = "done"
    /\ \E e \in OutEntities :
          /\ e.label = Some("L")
          /\ e.uuids = Some(<<"A", "B">>)
          /\ Len(fstab) = 2
          /\ fstab[1].device = "LABEL=L"
          /\ fstab[2].device = "UUID=A"
          /\ e.fstab_entry = Some(fstab[1])

(***************************************************************************)
(* C5: an entity with no label/UUID record of its name has label and       *)
(* uuid_list absent; an entity with such a record has the label and the    *)
(* uuid_list of the record, a present-but-empty list staying present.      *)
(***************************************************************************)
C5_LabelUuidOverlay ==
    pc = "done" =>
        \A e \in OutEntities :
            /\ LabelsOf(e.name) = {} => (e.label = None /\ e.uuids = None)
            /\ \A k \in LabelsOf(e.name) :
                  e.label = dev_disk[k].label /\ e.uuids = dev_disk[k].uuid

C5_Witness ==
    /\ pc = "done"
    /\ \E e \in OutEntities : LabelsOf(e.name) = {} /\ e.label = None /\ e.uuids = None
    /\ \E e \in OutEntities :
          /\ LabelsOf(e.name) # {}
          /\ e.label = None
          /\ e.uuids = Some(<<>>)

(***************************************************************************)
(* C6: the detection engine is called, once, for exactly the partitions    *)
(* without a live-mount record and the whole devices without a live-mount  *)
(* record and without child partitions.                                    *)
(***************************************************************************)
C6_ProbedExactlyWhenEligible ==
    pc = "done" =>
        /\ {probes[k] : k \in 1..Len(probes)} =
              {d.name : d \in {x \in InDevices : MountsOf(x.name) = {} /\ parts_of(x) = <<>>}}
              \cup {p.name : p \in {x \in InPartitions : MountsOf(x.name) = {}}}
        /\ \A a, b \in 1..Len(probes) : a # b => probes[a] # probes[b]

C6_Witness ==
    /\ pc = "done"
    /\ \E d \in InDevices :
          /\ parts_of(d) # <<>>
          /\ MountsOf(d.name) = {}
          /\ \A k \in 1..Len(probes) : probes[k] # d.name
    /\ \E d \in InDevices :
          /\ parts_of(d) = <<>>
          /\ MountsOf(d.name) = {}
          /\ \E k \in 1..Len(probes) : probes[k] = d.name
    /\ \E p \in InPartitions : \E k \in 1..Len(probes) : probes[k] = p.name

(***************************************************************************)
(* C7: when the detection engine fails for an entity, the entity is still  *)
(* in the output, with filesystem absent and its size, label, uuid_list,   *)
(* mount_point and fstab_entry as the other sources give them, and every   *)
(* device and partition of the topology is in the output.                  *)
(***************************************************************************)
C7_ProbeFailureIsLocal ==
    pc = "done" =>
        /\ \A k \in 1..Len(probes) :
              ~get_fstype_with_magic(devfs, probes[k]).ok =>
                  \E e \in OutEntities :
                      /\ e.name = probes[k]
                      /\ e.filesystem = None
                      /\ e.mount_point = None
                      /\ e.size = Some(SizeOf(e.name))
                      /\ \/ LabelsOf(e.name) = {} /\ e.label = None /\ e.uuids = None
                         \/ \E r \in LabelsOf(e.name) :
                               e.label = dev_disk[r].label /\ e.uuids = dev_disk[r].uuid
                      /\ e.fstab_entry = FirstRef(e)
        /\ {d.name : d \in OutDevices} = {d.name : d \in InDevices}
        /\ Len(combined_info) = Len(sys_block)
        /\ \A d \in OutDevices : \E sb \in InDevices :
              /\ sb.name = d.name
              /\ Len(d.partitions) = Len(parts_of(sb))
              /\ {p.name : p \in {d.partitions[m] : m \in 1..Len(d.partitions)}} =
                     {parts_of(sb)[m].name : m \in 1..Len(parts_of(sb))}

C7_Witness ==
    /\ pc = "done"
    /\ ~get_fstype_with_magic(devfs, sda10).ok
    /\ \E k \in 1..Len(probes) : probes[k] = sda10
    /\ \E e \in OutEntities : e.name = sda10 /\ e.filesystem = None /\ e.size # None
    /\ \E e \in OutEntities :
          e.name = sda2 /\ e.filesystem = Some("vfat") /\ e.fstab_entry # None
    /\ Len(combined_info) = 2


(***************************************************************************)
(* The signature table as the specification gives it, in its order: the    *)
(* filesystem, the offset, the bytes on the device, whether the boot       *)
(* sector marker is required, and whether the rule reads the device from   *)
(* its start (a byte-sequence rule) or at the offset (a numeric rule).     *)
(***************************************************************************)
Rule(fs, at, bytes, boot, from_start) ==
    [fs |-> fs, at |-> at, bytes |-> bytes, boot |-> boot, from_start |-> from_start]

SpecTable == <<
    Rule("vfat", 54, FAT12_MAGIC, TRUE, TRUE),
    Rule("vfat", 54, FAT16_MAGIC, TRUE, TRUE),
    Rule("vfat", 82, FAT32_MAGIC, TRUE, TRUE),
    Rule("ntfs", 3, NTFS_MAGIC, TRUE, TRUE),
    Rule("exfat", 3, EXFAT_MAGIC, FALSE, TRUE),
    Rule("swap", 4086, SWAP_MAGIC_2, FALSE, TRUE),
    Rule("swap", 4086, SWAP_MAGIC, FALSE, TRUE),
    Rule("xfs", 0, <<66, 83, 70, 88>>, FALSE, FALSE),
    Rule("ext4", 1080, <<83, 239>>, FALSE, FALSE),
    Rule("iso9660", 32769, ISO9660_MAGIC, FALSE, TRUE),
    Rule("iso9660", 34817, ISO9660_MAGIC, FALSE, TRUE),
    Rule("iso9660", 36865, ISO9660_MAGIC, FALSE, TRUE),
    Rule("btrfs", 65600, <<62, 104, 35, 145, 0, 0, 0, 0>>, FALSE, FALSE) >>

\* the node get_fstype_with_magic was called on, and what it returned
ProbedPath == DevDir \o mdevice[1]
Opened == ProbedPath \in DOMAIN devfs /\ devfs[ProbedPath].readable
Returned == mresult[1]

\* the bytes of the device contain the pattern of the rule
HasPattern(f, r) ==
    /\ r.at + Len(r.bytes) <= f.len
    /\ \A k \in 1..Len(r.bytes) : ByteAt(f, r.at + k - 1) = r.bytes[k]
    /\ r.boot => (512 <= f.len /\ ByteAt(f, 510) = 85 /\ ByteAt(f, 511) = 170)

\* the number of bytes the rule needs the device to have
ReadSpan(r) ==
    IF r.from_start /\ r.at + Len(r.bytes) < 4096 THEN 4096 ELSE r.at + Len(r.bytes)

\* the probe of the rule matches: the range is read and holds the pattern
ProbeMatches(f, r) == ReadSpan(r) <= f.len /\ HasPattern(f, r)

Matching(f) == {k \in 1..Len(SpecTable) : ProbeMatches(f, SpecTable[k])}
Patterns(f) == {k \in 1..Len(SpecTable) : HasPattern(f, SpecTable[k])}

(***************************************************************************)
(* C8: get_fstype_with_magic returns the type of the earliest rule, in the *)
(* order of the table, whose probe matches, also when later rules match.   *)
(***************************************************************************)
C8_FirstMatchWins ==
    (pc = "magic_done" /\ Opened) =>
        LET hit == Matching(devfs[ProbedPath])
        IN  hit # {} =>
                Returned = Ok(Some(SpecTable[CHOOSE k \in hit : \A m \in hit : k <= m].fs))

C8_Witness ==
    /\ pc = "magic_done"
    /\ Opened
    /\ Matching(devfs[ProbedPath]) = {3, 9}
    /\ Returned = Ok(Some("vfat"))

(***************************************************************************)
(* C9, as claimed: a device whose bytes contain the pattern of exactly one *)
(* rule of the table is detected as the type of that rule.                 *)
(***************************************************************************)
C9_OnePatternDetected ==
    (pc = "magic_done" /\ Opened) =>
        \A k \in 1..Len(SpecTable) :
            Patterns(devfs[ProbedPath]) = {k} => Returned = Ok(Some(SpecTable[k].fs))

(***************************************************************************)
(* C9, amended: a device whose bytes contain the pattern of exactly one    *)
(* rule of the table, and which is as long as the range that rule reads    *)
(* (4096 bytes for the FAT, NTFS and exFAT rules), is detected as the type *)
(* of that rule.                                                           *)
(***************************************************************************)
C9_OnePatternDetectedIfRead ==
    (pc = "magic_done" /\ Opened) =>
        \A k \in 1..Len(SpecTable) :
            (Patterns(devfs[ProbedPath]) = {k} /\ ReadSpan(SpecTable[k]) <= devfs[ProbedPath].len)
                => Returned = Ok(Some(SpecTable[k].fs))

C9_Witness ==
    /\ pc = "magic_done"
    /\ Opened
    /\ Patterns(devfs[ProbedPath]) = {3}
    /\ devfs[ProbedPath].len = 4096
    /\ Returned = Ok(Some("vfat"))

(***************************************************************************)
(* C10: get_fstype_with_magic returns an error if and only if the device   *)
(* node cannot be opened; otherwise it returns None exactly when no rule   *)
(* of the table matches, and else one of the eight type strings.           *)
(***************************************************************************)
C10_ErrorOnlyOnOpen ==
    pc = "magic_done" =>
        /\ ~Returned.ok <=> ~Opened
        /\ Returned.ok =>
              /\ Returned.val = None <=> Matching(devfs[ProbedPath]) = {}
              /\ Returned.val \in
                    {None} \cup {Some(t) : t \in {"vfat", "ntfs", "exfat", "swap", "xfs",
                                                    "ext4", "iso9660", "btrfs"}}

C10_Witness ==
    /\ pc = "magic_done"
    /\ ProbedPath \in DOMAIN devfs
    /\ ~Opened
    /\ ~Returned.ok


\* the rules of the table whose seek or read fails on the device
FailedReads(f) == {k \in 1..Len(SpecTable) : ReadSpan(SpecTable[k]) > f.len}

(***************************************************************************)
(* C11: a rule whose seek or read fails counts as not matching, and the    *)
(* rules after it are still evaluated: the call returns no error, the type *)
(* it returns is the type of a rule that was read, a matching rule that    *)
(* comes after failed ones is still returned, a device shorter than 4096   *)
(* bytes with 53 EF at 1080 (and no XFS magic) is ext4, and a device too   *)
(* small for every rule gives None.                                        *)
(***************************************************************************)
C11_ShortReadTolerated ==
    (pc = "magic_done" /\ Opened) =>
        LET f == devfs[ProbedPath]
            failed == FailedReads(f)
            hit == Matching(f)
        IN  /\ Returned.ok
            /\ hit \cap failed = {}
            /\ \A t \in {"vfat", "ntfs", "exfat", "swap", "xfs", "ext4", "iso9660", "btrfs"} :
                  Returned.val = Some(t) =>
                      \E k \in (1..Len(SpecTable)) \ failed : SpecTable[k].fs = t
            /\ \A m \in hit :
                  ((\E k \in failed : k < m) /\ (\A n \in hit : m <= n))
                      => Returned = Ok(Some(SpecTable[m].fs))
            /\ (f.len < 4096 /\ 9 \in Patterns(f) /\ 8 \notin Patterns(f))
                  => Returned = Ok(Some("ext4"))
            /\ failed = 1..Len(SpecTable) => Returned = Ok(None)

C11_Witness ==
    /\ pc = "magic_done"
    /\ Opened
    /\ devfs[ProbedPath].len = 2048
    /\ FailedReads(devfs[ProbedPath]) = (1..7) \cup (10..13)
    /\ Matching(devfs[ProbedPath]) = {9}
    /\ Returned = Ok(Some("ext4"))


(***************************************************************************)
(* C12, as claimed: a count n of 512-byte sectors becomes n * 512 bytes;   *)
(* 2048 sectors are 1048576 bytes, rendered "1MB"; 3 sectors are 1536      *)
(* bytes, rendered "1536B".                                                *)
(***************************************************************************)
C12_SizeRenderedAsClaimed ==
    pc = "size_done" =>
        /\ size_bytes = Some(Ok(blocks * 512))
        /\ blocks = 2048 => (size_bytes = Some(Ok(1048576)) /\ size_text = Some("1MB"))
        /\ blocks = 3 => (size_bytes = Some(Ok(1536)) /\ size_text = Some("1536B"))

(***************************************************************************)
(* C12, amended: a count n of 512-byte sectors becomes n * 512 bytes;      *)
(* 2048 sectors are 1048576 bytes, rendered "1MB"; 3 sectors are 1536      *)
(* bytes, which is not below 1024 and is rendered "1.5KB"; 1 sector is     *)
(* rendered "512B", and only sizes below 1024 bytes carry the unit B.      *)
(***************************************************************************)
C12_SizeRendered ==
    pc = "size_done" =>
        /\ size_bytes = Some(Ok(blocks * 512))
        /\ blocks = 2048 => (size_bytes = Some(Ok(1048576)) /\ size_text = Some("1MB"))
        /\ blocks = 3 => (size_bytes = Some(Ok(1536)) /\ size_text = Some("1.5KB"))
        /\ blocks = 1 => size_text = Some("512B")
        /\ blocks = 0 => size_text = Some("0B")
        /\ blocks = 2049 => size_text = Some("1.0MB")
        /\ blocks = 2100 => size_text = Some("1.0MB")
        /\ blocks = 2150 => size_text = Some("1.0MB")
        /\ blocks = 2151 => size_text = Some("1.1MB")
        /\ blocks = 262144 => size_text = Some("128MB")
        /\ blocks >= 2 => size_text # Some(to_string(blocks * 512) \o "B")

C12_Witness ==
    /\ pc = "size_done"
    /\ blocks = 3
    /\ size_bytes = Some(Ok(1536))
    /\ size_text = Some("1.5KB")


\* the readers that failed
FailedSources == {n \in DOMAIN sources : ~sources[n].ok}

(***************************************************************************)
(* C13: if one of the four readers fails, the run ends before the          *)
(* aggregation and prints nothing; whatever is printed is printed after    *)
(* all four record sets were obtained and the aggregation has returned.    *)
(***************************************************************************)
C13_NoReportOnSourceFailure ==
    /\ FailedSources # {} =>
          /\ stdout = <<>>
          /\ pc \in {"main", "read_dev_disk", "read_proc_mounts", "read_fstab",
                     "unwrap_panicked"}
          /\ combined_info = <<>>
          /\ probes = <<>>
    /\ stdout # <<>> =>
          /\ FailedSources = {}
          /\ sys_block = sources.sys_block.val
          /\ dev_disk = sources.dev_disk.val
          /\ proc_mounts = sources.proc_mounts.val
          /\ fstab = sources.fstab.val
          /\ pc \in {"done", "exit", "fmt_panicked"}
    /\ pc = "unwrap_panicked" => FailedSources # {}

C13_Witness ==
    /\ pc = "unwrap_panicked"
    /\ sources.sys_block.ok /\ sources.sys_block.val # <<>>
    /\ sources.dev_disk.ok
    /\ ~sources.proc_mounts.ok
    /\ sources.fstab.ok
    /\ sys_block = sources.sys_block.val
    /\ stdout = <<>>


\* the UUID line of an entity with one or with two UUIDs
UuidText(u) == IF Len(u) = 1 THEN u[1] ELSE u[1] \o " (" \o u[2] \o ")"
UuidLine(indent, u) == indent \o "<U+2022> UUID: " \o UuidText(u)

\* how many lines of the output are the given line
Occurrences(line) == Cardinality({k \in 1..Len(stdout) : stdout[k] = line})

\* the entities of a set that carry one or two UUIDs and expect the line
Expecting(entities, indent, line) ==
    {e \in entities : /\ e.uuids # None
                      /\ Len(e.uuids[1]) \in {1, 2}
                      /\ UuidLine(indent, e.uuids[1]) = line}

\* the UUID lines that one or two UUIDs can give
UuidLinesOf(entities, indent) ==
    {UuidLine(indent, e.uuids[1]) :
        e \in {x \in entities : x.uuids # None /\ Len(x.uuids[1]) \in {1, 2}}}

(***************************************************************************)
(* C14: in the printed report an entity with exactly one UUID has the UUID *)
(* line with that value, and an entity with the UUIDs [A, B] has the UUID  *)
(* line "A (B)"; the lines of devices are indented by two spaces, those of *)
(* partitions by six.                                                      *)
(***************************************************************************)
C14_UuidRendering ==
    pc = "exit" =>
        /\ \A line \in UuidLinesOf(OutDevices, "  ") :
              /\ Occurrences(line) >= Cardinality(Expecting(OutDevices, "  ", line))
              /\ Occurrences(line) <= Cardinality({e \in OutDevices : e.uuids # None})
        /\ \A line \in UuidLinesOf(OutPartitions, "      ") :
              /\ Occurrences(line) >= Cardinality(Expecting(OutPartitions, "      ", line))
              /\ Occurrences(line) <= Cardinality({e \in OutPartitions : e.uuids # None})

C14_Witness ==
    /\ pc = "exit"
    /\ \E p \in OutPartitions : p.uuids = Some(<<"A", "B">>)
    /\ \E d \in OutDevices : d.uuids = Some(<<"C">>)
    /\ Occurrences("      <U+2022> UUID: A (B)") = 1
    /\ Occurrences("  <U+2022> UUID: C") = 1


References(e) ==
    (IF e.uuids # None /\ e.uuids[1] # <<>> THEN {"UUID=" \o e.uuids[1][1]} ELSE {})
    \cup (IF e.label # None THEN {"LABEL=" \o e.label[1]} ELSE {})

(***************************************************************************)
(* C15: an attached fstab_entry is a record of the static-mount list whose *)
(* device is "UUID=" + the first UUID or "LABEL=" + the label of the same  *)
(* entity; an entity without label and without a first UUID has no         *)
(* fstab_entry; a record naming a later UUID of the list, or a raw path,   *)
(* is never attached.                                                      *)
(***************************************************************************)
C15_CrossReferenceSound ==
    pc = "done" =>
        \A e \in OutEntities :
            /\ e.fstab_entry # None =>
                  /\ \E k \in 1..Len(fstab) : fstab[k] = e.fstab_entry[1]
                  /\ e.fstab_entry[1].device \in References(e)
            /\ References(e) = {} => e.fstab_entry = None
            /\ e.fstab_entry # None =>
                  /\ e.uuids # None =>
                        \A k \in 2..Len(e.uuids[1]) :
                            e.fstab_entry[1].device # "UUID=" \o e.uuids[1][k]
                  /\ e.fstab_entry[1].device \notin {"/dev/sda", "/dev/sdb", "/dev/sdc",
                                                     "/dev/sda1", "/dev/sda2", "/dev/sda10"}

C15_Witness ==
    /\ pc = "done"
    /\ Len(fstab) = 2
    /\ fstab[1].device = "UUID=B"
    /\ fstab[2].device = "/dev/sda2"
    /\ \E e \in OutEntities :
          /\ e.name = sda2
          /\ e.uuids = Some(<<"A", "B">>)
          /\ e.fstab_entry = None
    /\ \E e \in OutEntities : e.uuids = None /\ e.label = None /\ e.fstab_entry = None


\* the device holds the bytes at the offset
HasBytes(f, at, bytes) ==
    /\ at + Len(bytes) <= f.len
    /\ \A k \in 1..Len(bytes) : ByteAt(f, at + k - 1) = bytes[k]

\* bytes 510 and 511 of the device are 55 AA
BootMarker(f) == HasBytes(f, 510, <<85, 170>>)

FatBytes(f) ==
    \/ HasBytes(f, 54, FAT12_MAGIC)
    \/ HasBytes(f, 54, FAT16_MAGIC)
    \/ HasBytes(f, 82, FAT32_MAGIC)

(***************************************************************************)
(* C16: the boot-sector marker gates the FAT12, FAT16, FAT32 and NTFS      *)
(* rules and no other: without 55 AA at 510-511 nothing is detected as     *)
(* vfat or ntfs, with it the FAT and NTFS byte sequences are; the exFAT,   *)
(* swap and ISO9660 byte sequences are detected without the marker.        *)
(***************************************************************************)
C16_BootSectorGates ==
    (pc = "magic_done" /\ Opened) =>
        LET f == devfs[ProbedPath]
        IN  /\ ~BootMarker(f) => Returned.val \notin {Some("vfat"), Some("ntfs")}
            /\ (f.len >= 4096 /\ BootMarker(f) /\ FatBytes(f)) => Returned = Ok(Some("vfat"))
            /\ (f.len >= 4096 /\ BootMarker(f) /\ ~FatBytes(f) /\ HasBytes(f, 3, NTFS_MAGIC))
                  => Returned = Ok(Some("ntfs"))
            /\ (f.len >= 4096 /\ ~BootMarker(f) /\ HasBytes(f, 3, EXFAT_MAGIC))
                  => Returned = Ok(Some("exfat"))
            /\ (f.len >= 4096 /\ ~BootMarker(f) /\ ~HasBytes(f, 3, EXFAT_MAGIC)
                  /\ (HasBytes(f, 4086, SWAP_MAGIC_2) \/ HasBytes(f, 4086, SWAP_MAGIC)))
                  => Returned = Ok(Some("swap"))
            /\ (~BootMarker(f) /\ Matching(f) \cap (1..9) = {}
                  /\ (\/ HasBytes(f, 32769, ISO9660_MAGIC)
                      \/ HasBytes(f, 34817, ISO9660_MAGIC)
                      \/ HasBytes(f, 36865, ISO9660_MAGIC)))
                  => Returned = Ok(Some("iso9660"))

C16_Witness ==
    /\ pc = "magic_done"
    /\ Opened
    /\ devfs[ProbedPath].len = 4096
    /\ HasBytes(devfs[ProbedPath], 82, FAT32_MAGIC)
    /\ ~BootMarker(devfs[ProbedPath])
    /\ Returned = Ok(None)

(***************************************************************************)
(* C17: the numeric magics are compared after little-endian decoding: when *)
(* no earlier rule matches, the result is xfs exactly when bytes 0..3 are  *)
(* 42 53 46 58, else ext4 exactly when bytes 1080..1081 are 53 EF, else    *)
(* (no ISO9660 match either) btrfs exactly when the 8 bytes at 65600 are   *)
(* 3E 68 23 91 00 00 00 00; a device that starts with 58 46 53 42 does not *)
(* match the XFS rule.                                                     *)
(***************************************************************************)
C17_LittleEndianMagics ==
    (pc = "magic_done" /\ Opened) =>
        LET f == devfs[ProbedPath]
            xfs == HasBytes(f, 0, <<66, 83, 70, 88>>)
            ext4 == HasBytes(f, 1080, <<83, 239>>)
            btrfs == HasBytes(f, 65600, <<62, 104, 35, 145, 0, 0, 0, 0>>)
        IN  /\ Matching(f) \cap (1..7) = {} => (Returned = Ok(Some("xfs")) <=> xfs)
            /\ (Matching(f) \cap (1..7) = {} /\ ~xfs)
                  => (Returned = Ok(Some("ext4")) <=> ext4)
            /\ (Matching(f) \cap (1..7) = {} /\ ~xfs /\ ~ext4 /\ Matching(f) \cap (10..12) = {})
                  => (Returned = Ok(Some("btrfs")) <=> btrfs)
            /\ HasBytes(f, 0, <<88, 70, 83, 66>>) => Returned # Ok(Some("xfs"))

C17_Witness ==
    /\ pc = "magic_done"
    /\ Opened
    /\ HasBytes(devfs[ProbedPath], 0, <<88, 70, 83, 66>>)
    /\ HasBytes(devfs[ProbedPath], 65600, <<62, 104, 35, 145, 0, 0, 0, 0>>)
    /\ Returned = Ok(Some("btrfs"))


\* the names of the topology: devices, and partitions of a device record
TopologyNames == {d.name : d \in InDevices} \cup {p.name : p \in InPartitions}

\* the records of the other three sources that name no topology entity
StrayRecords ==
    /\ \E k \in 1..Len(dev_disk) : dev_disk[k].name \notin TopologyNames
    /\ \E k \in 1..Len(proc_mounts) : proc_mounts[k].name \notin TopologyNames

(***************************************************************************)
(* C19: the output has exactly one device entity for every device record   *)
(* of the topology and under it exactly one partition entity for every     *)
(* partition record of that device, with the names and sizes of the        *)
(* topology; an entity named by no label/UUID record and no live-mount     *)
(* record has no label, UUID list, mount point or fstab_entry, and a       *)
(* filesystem only from the probe of its own device node.                  *)
(***************************************************************************)
C19_EntityConservation ==
    pc = "done" =>
        /\ Len(combined_info) = Len(sys_block)
        /\ \A d \in 1..Len(sys_block) :
              LET sb == sys_block[d]
                  out == {k \in 1..Len(combined_info) : combined_info[k].name = sb.name}
              IN  /\ Cardinality(out) = 1
                  /\ \A k \in out :
                        /\ combined_info[k].size = Some(sb.info.size)
                        /\ Len(combined_info[k].partitions) = Len(parts_of(sb))
                        /\ \A m \in 1..Len(parts_of(sb)) :
                              Cardinality({n \in 1..Len(combined_info[k].partitions) :
                                  /\ combined_info[k].partitions[n].name = parts_of(sb)[m].name
                                  /\ combined_info[k].partitions[n].size
                                        = Some(parts_of(sb)[m].info.size)}) = 1
        /\ \A e \in OutEntities :
              /\ e.name \in TopologyNames
              /\ LabelsOf(e.name) = {} =>
                    (e.label = None /\ e.uuids = None /\ e.fstab_entry = None)
              /\ MountsOf(e.name) = {} =>
                    /\ e.mount_point = None
                    /\ e.filesystem \in {None, fstype_from(get_fstype_with_magic(devfs, e.name))}

C19_Witness ==
    /\ pc = "done"
    /\ StrayRecords
    /\ Len(sys_block) = 2
    /\ Len(combined_info) = 2
    /\ combined_info[1].name = sda
    /\ Len(combined_info[1].partitions) = 1
    /\ combined_info[1].partitions[1].name = sda10
    /\ \E k \in 1..Len(dev_disk) : dev_disk[k].name = sda2
    /\ \E k \in 1..Len(proc_mounts) : proc_mounts[k].name = sda2
    /\ \E k \in 1..Len(fstab) : fstab[k].device = "/dev/sda2"
    /\ \A e \in OutEntities :
          e.name # sda2 /\ e.label = None /\ e.mount_point = None /\ e.fstab_entry = None

(***************************************************************************)
(* C20: an entity named by several live-mount records takes its mount      *)
(* point and its filesystem from one record, the first of them in table    *)
(* order; the mount point is present exactly when a live-mount record of   *)
(* the name exists, so a detected filesystem comes without a mount point.  *)
(***************************************************************************)
C20_FirstLiveMountRecord ==
    pc = "done" =>
        \A e \in OutEntities :
            /\ MountsOf(e.name) # {} =>
                  LET k == CHOOSE x \in MountsOf(e.name) : \A m \in MountsOf(e.name) : x <= m
                  IN  /\ e.mount_point = Some(proc_mounts[k].mount_point)
                      /\ e.filesystem = Some(proc_mounts[k].fstype)
            /\ e.mount_point # None <=> MountsOf(e.name) # {}
            /\ (e.filesystem # None /\ \E k \in 1..Len(probes) : probes[k] = e.name)
                  => e.mount_point = None

C20_Witness ==
    /\ pc = "done"
    /\ Len(proc_mounts) = 2
    /\ proc_mounts[1] = [name |-> sda2, mount_point |-> "/mnt", fstype |-> "ntfs"]
    /\ proc_mounts[2] = [name |-> sda2, mount_point |-> "/home", fstype |-> "btrfs"]
    /\ \E e \in OutEntities :
          e.name = sda2 /\ e.mount_point = Some("/mnt") /\ e.filesystem = Some("ntfs")
    /\ \E e \in OutEntities : e.name = sda /\ e.mount_point = None

\* an entity whose filesystem was detected from the signatures of its node
C20_DetectedCase ==
    /\ pc = "done"
    /\ \E e \in OutEntities :
          /\ \E k \in 1..Len(probes) : probes[k] = e.name
          /\ e.mount_point = None
          /\ e.filesystem # None

=============================================================================
